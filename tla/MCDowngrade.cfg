CONSTANTS
    Table <- Tables
    Fillable <- TablesWithRows
    File <- History
    ModelsNeed <- Needed
SPECIFICATION Spec
INVARIANT DowngradeWorks
