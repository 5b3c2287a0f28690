SPECIFICATION LibrarySpec
CONSTANTS
    Base = 4
    MaxInt64 = 40
    MaxVisit = 2
    MaxIndex = 3
    Contents <- MCContents
    MaxUnits = 3
    MaxObjects = 3
    MaxEntries = 4
    Files <- FilesAtFirst
    Broken <- BrokenFiles
    Mains <- PackageMains
    GlobalFolders <- GlobalDirs
    Native = {"n"}
    Core = {"core"}
    ScriptDir <- Top
    Requests <- Requested
INVARIANTS Contained MovesAgree ValuesRead ModulesShared
PROPERTIES RegExpsAgree DatesAgree
CHECK_DEADLOCK FALSE
