------------------------------ MODULE Revisions -------------------------------
(***************************************************************************)
(* The files of alembic/versions: the revisions each revises, its upgrade   *)
(* and its downgrade; and what the models of app/models rely on.            *)
(*                                                                          *)
(* Tables that the revisions treat alike stand as one: "other" for the 35   *)
(* of which only timestamps are ever altered, and "preferences" for         *)
(* user_interview_preferences and user_platform_integrations.               *)
(***************************************************************************)
EXTENDS Statements, TLC

Base  == {"users", "active_sessions", "password_reset_tokens",
          "interview_summaries", "waitlist_signups", "preferences", "other"}
Later == {"refresh_tokens", "email_verification_tokens",
          "email_subscriptions", "support_tickets"}
Tables == Base \cup Later

\* The tables of Base that cacd5554ba5a creates without some timestamp.
Untimed == {"active_sessions", "password_reset_tokens", "interview_summaries",
            "waitlist_signups", "other"}

\* The tables whose rows matter to a revision.
TablesWithRows == {"active_sessions", "waitlist_signups"}

-----------------------------------------------------------------------------
(* The revisions, one definition for each file: the revisions it revises,   *)
(* its upgrade and its downgrade.                                           *)

Migration(parents, up, down) == [parents |-> parents, up |-> up, down |-> down]
EmptyAfter(parents) == Migration(parents, << >>, << >>)

CreateAllTables == << CreateTable(Base), Add({"users"}, "unique email") >>
DropAllTables   == << DropTable(Base) >>

AddRefreshTokenTable == Migration({"cacd5554ba5a"},
    << CreateTable({"refresh_tokens"}), Add({"refresh_tokens"}, "unique token_hash"),
       Add({"preferences"}, "created_at") >>,
    << Drop({"preferences"}, "created_at"), DropTable({"refresh_tokens"}) >>)

MakeRefreshTokensAware == Migration({"d44e91e81013"},
    << ToAware({"refresh_tokens"}, "itself") >>,
    << ToNaive({"refresh_tokens"}, "itself") >>)

AddRefreshTokenHash == Migration({"cacd5554ba5a"},
    << AddNotNull({"active_sessions"}, "refresh_token_hash"),
       Add({"active_sessions"}, "index refresh_token_hash") >>,
    << Drop({"active_sessions"}, "index refresh_token_hash"),
       Drop({"active_sessions"}, "refresh_token_hash") >>)

UniqueRefreshTokenHash == Migration({"a8cbb47717b3"},
    << Drop({"active_sessions"}, "index refresh_token_hash"),
       Add({"active_sessions"}, "unique refresh_token_hash") >>,
    << DropUnnamed({"active_sessions"}),
       Add({"active_sessions"}, "index refresh_token_hash") >>)

AddEmailVerificationTokens == Migration({"cacd5554ba5a"},
    << CreateTable({"email_verification_tokens"}),
       Add({"email_verification_tokens"}, "index token_hash") >>,
    << Drop({"email_verification_tokens"}, "index token_hash"),
       DropTable({"email_verification_tokens"}) >>)

\* The downgrade creates an index that the upgrade has not dropped.
SyncSchemaWithModels == Migration({"5b25f8695307"},
    << Add(Untimed, "updated_at"), Add({"users"}, "is_verified") >>,
    << Drop({"users"}, "is_verified"),
       Add({"email_verification_tokens"}, "index token_hash"),
       Drop(Untimed, "updated_at") >>)

MakeEmailVerificationAware == Migration({"7ba4c8acd02e"},
    << ToAware({"email_verification_tokens"}, "itself") >>,
    << ToNaive({"email_verification_tokens"}, "itself") >>)

StandardizeTimestamps ==
    << ToAware(Untimed, "updated_at"), ToAware({"preferences"}, "created_at"),
       ToAware({"users"}, "itself"), Add({"refresh_tokens"}, "updated_at") >>

UnstandardizeTimestamps ==
    << ToNaive({"users"}, "itself"), ToNaive({"preferences"}, "created_at"),
       Drop({"refresh_tokens"}, "updated_at"), ToNaive(Untimed, "updated_at") >>

AddJobDescription == Migration({"8ba95b973a4a"},
    << Add({"interview_summaries"}, "job_description"),
       Add({"interview_summaries"}, "scoring_rubric") >>,
    << Drop({"interview_summaries"}, "scoring_rubric"),
       Drop({"interview_summaries"}, "job_description") >>)

\* created_at and updated_at of the two tables are aware from the start.
CreateSupportAndSubscriptions == Migration({"c16813fe91d9"},
    << CreateTable({"email_subscriptions", "support_tickets"}),
       ToAware({"email_subscriptions", "support_tickets"}, "itself"),
       Add({"email_subscriptions"}, "unique email") >>,
    << Drop({"email_subscriptions"}, "unique email"),
       DropTable({"email_subscriptions", "support_tickets"}) >>)

AddEmailToWaitlist == Migration({"c6ef36577539"},
    << AddNotNull({"waitlist_signups"}, "email"),
       Add({"waitlist_signups"}, "unique email") >>,
    << DropUnnamed({"waitlist_signups"}), Drop({"waitlist_signups"}, "email") >>)

\* The revisions with nothing to do: an empty file, and the merges of heads.
InitRevision    == EmptyAfter({})
MergeAllHeads   == EmptyAfter({"64a8c4b4d071", "864df66fbeb7", "8d114ef61fcc"})
AlterLastSeenAt == EmptyAfter({"2cdac93874a4"})
MergeBranchingHeads      == EmptyAfter({"480a265e5923", "90aeb7c687d7"})
MergeMultipleHeads       == EmptyAfter({"480a265e5923", "90aeb7c687d7"})
ReconcileDivergentHeads  == EmptyAfter({"7047971f0a0a", "ed6aad565b56"})

Files ==
    "cacd5554ba5a" :> Migration({}, CreateAllTables, DropAllTables)
 @@ "90aeb7c687d7" :> InitRevision
 @@ "d44e91e81013" :> AddRefreshTokenTable
 @@ "8d114ef61fcc" :> MakeRefreshTokensAware
 @@ "a8cbb47717b3" :> AddRefreshTokenHash
 @@ "864df66fbeb7" :> UniqueRefreshTokenHash
 @@ "64a8c4b4d071" :> AddEmailVerificationTokens
 @@ "5b25f8695307" :> MergeAllHeads
 @@ "7ba4c8acd02e" :> SyncSchemaWithModels
 @@ "2cdac93874a4" :> MakeEmailVerificationAware
 @@ "6a2d8a454e64" :> AlterLastSeenAt
 @@ "8ba95b973a4a" :> Migration({"6a2d8a454e64"}, StandardizeTimestamps,
                                UnstandardizeTimestamps)
 @@ "480a265e5923" :> AddJobDescription
 @@ "c16813fe91d9" :> MergeBranchingHeads
 @@ "c6ef36577539" :> MergeMultipleHeads
 @@ "7047971f0a0a" :> CreateSupportAndSubscriptions
 @@ "ed6aad565b56" :> AddEmailToWaitlist
 @@ "62e9bff51378" :> ReconcileDivergentHeads

-----------------------------------------------------------------------------
(* What the code in app/ relies on, model by model.                         *)

UserModelsNeed ==
    Base \X {"itself", "aware"}
    \cup Untimed \X {"updated_at"}
    \cup {<<"users", "unique email">>, <<"users", "is_verified">>,
          <<"refresh_tokens", "itself">>, <<"refresh_tokens", "unique token_hash">>,
          <<"refresh_tokens", "aware">>, <<"refresh_tokens", "updated_at">>,
          <<"active_sessions", "refresh_token_hash">>,
          <<"active_sessions", "unique refresh_token_hash">>,
          <<"preferences", "created_at">>}

EmailVerificationNeeds ==
    {"email_verification_tokens"} \X {"itself", "index token_hash", "aware"}

SubscriptionNeeds == {"email_subscriptions"} \X {"itself", "unique email", "aware"}

SupportNeeds == {"support_tickets"} \X {"itself", "aware"}

WaitlistNeeds == {"waitlist_signups"} \X {"email", "unique email"}

InterviewSummaryNeeds ==
    {"interview_summaries"} \X {"job_description", "scoring_rubric"}

ModelsRelyOn ==
    UNION {UserModelsNeed, EmailVerificationNeeds, SubscriptionNeeds, SupportNeeds,
           WaitlistNeeds, InterviewSummaryNeeds}
=============================================================================
