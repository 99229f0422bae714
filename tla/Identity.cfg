\* Three overlapping requests about one account; three calls about two API
\* keys with one prefix.
SPECIFICATION IdentitySpec
CONSTANTS
  q1 = q1
  q2 = q2
  q3 = q3
  e1 = e1
  p1 = p1
  p2 = p2
  k1 = k1
  k2 = k2
  u1 = u1
  u2 = u2
  c1 = c1
  c2 = c2
  c3 = c3
  Request = {q1, q2, q3}
  Email = {e1}
  Password = {p1, p2}
  Key = {k1, k2}
  PrefixOf <- OnePrefix
  User = {u1, u2}
  OwnerOf <- TwoOwners
  Flow = {f1, f2, f3}
  NoFlow = NoFlow
  KeyCall = {c1, c2, c3}
SYMMETRY Alike
INVARIANTS
  TypeOK
  LaterPrevails
  LinkDiesOfOthers
  SignInIsExplained
PROPERTIES
  AnswersAreCurrent
  KeyAnswersAreCurrent
\* Every request is made once: the run ends when all are answered.
CHECK_DEADLOCK FALSE
