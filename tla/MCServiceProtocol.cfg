\* Two clients that call, time out, close and connect again.
SPECIFICATION Spec
CONSTANTS
  Client = {c1, c2}
  Password = {p1, p2}
  NoPass = none
  MaxConn = 2
  MaxSent = 2
INVARIANTS
  TypeOK
  AnswerIsOwn
  ToldOkIsDone
  EffectsInOrder
CHECK_DEADLOCK FALSE
PROPERTIES
  EffectIsAwaited
  ReloadIsHeard
