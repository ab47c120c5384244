SPECIFICATION FairSpec
CONSTANTS
  r1 = r1  r2 = r2  r3 = r3
  e1 = e1
  f1 = f1  f2 = f2  f3 = f3
  p1 = p1  p2 = p2
  None = None
  Requests = {r1, r2, r3}
  Endpoints = {e1}
  Fingerprints = {f1, f2, f3}
  Processes = {p1, p2}
  LockIds = {1, 2}
  LockId <- RandomizedLocks
  Classes <- PairClasses
  Safe = SAFE
  Compat <- PairCompat
INVARIANTS
  TypeOK
  VersionChain
  NewestIsCurrent
  ClassifiedAgainstPredecessor
  EndpointHasCurrent
  AnsweredIsRecorded
  NoIntegrityError
PROPERTIES
  RefinesHistory
  EveryRequestAnswered
