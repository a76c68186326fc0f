SPECIFICATION Spec
CONSTANTS
    Calls = {c1, c2, c3}
    Names = {n1, n2}
    One = 10
    Answers <- MCAnswers
    Similarities = {7}
    Raised = Raised
    Configs <- MCConfigs
SYMMETRY Symmetric
INVARIANTS OwnPipeline AnswersBacked SubmittedBacked AggregateIsFlat ScoresInRange
CHECK_DEADLOCK FALSE
