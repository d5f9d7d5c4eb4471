SPECIFICATION Spec
CONSTANTS
    Columns = {"a", "b"}
    Values = {"0", "1"}
    NoRow = NoRow
    Answers <- MCAnswers
    MaxCalls = 2
INVARIANTS
    TypeOK
    FirstValueIsKept
    CallIsSettled
