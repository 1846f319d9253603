CONSTANTS
    Table <- Tables
    Fillable <- TablesWithRows
    File <- History
    ModelsNeed <- Needed
SPECIFICATION Spec
INVARIANTS CommandInv AppliedIsClosed SchemaIsOfApplied UpgradeFailsOnlyOverRows HeadMatchesModels
PROPERTY OnlyUndoneLeave
