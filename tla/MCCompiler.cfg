SPECIFICATION CompilerSpec
CONSTANTS
    MaxEvents = 8
    ReturnFrames = 2
    Programs <- MCPrograms
    Ast <- MCAst
INVARIANT ProgramsAgree
PROPERTIES TreesParsed TextsMatched
CHECK_DEADLOCK FALSE
