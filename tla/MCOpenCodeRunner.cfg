\* Two concurrent runs; SIGKILL may fail twice in a row.
CONSTANTS
  r1 = r1
  r2 = r2
  Runs <- MCRuns
  WithKeys <- MCFirst
  WithVariant <- MCSecond
  WithMCP <- MCFirst
  Resuming <- MCFirst
  Attempts = 2
SPECIFICATION FairSpec
INVARIANTS
  NoSurvivors
  CutNeverSucceeds
PROPERTIES
  StoppedSpawnsNothing
  StoppedReturns
\* the runs are finitely many
CHECK_DEADLOCK FALSE
