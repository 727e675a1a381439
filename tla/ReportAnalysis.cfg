SPECIFICATION Spec
CHECK_DEADLOCK FALSE
CONSTANTS
  Inputs <- MCInputs
  Classifications <- MCClassifications
  QcAnswers <- MCQcAnswers
  LabelFlags <- MCLabelFlags
  ClientAnswers <- MCClientAnswers
  ManagerAnswers <- MCManagerAnswers
  ReportAnswers <- MCReportAnswers
  Schemas <- MCSchemas
INVARIANTS
  ScoreOnlyWhenJudged
  LostOnlyForCause
  StampsTellStages
  RepairHidesNoGuess
  EvalSeesTheSameRoles
  WeaknessesCostPoints
  KeptQuotesArePresent
