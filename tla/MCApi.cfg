SPECIFICATION ApiSpec

CONSTANTS
  t1 = t1
  t2 = t2
  u1 = u1
  s1 = s1
  s2 = s2
  q1 = q1
  q2 = q2
  Requests = {q1, q2}
  Sends <- AnyAndAccount
  Tenants = {t1, t2}
  Users = {u1}
  Home <- HomeOfAll
  Sessions = {s1, s2}
  Limit = 1
  MaxClicks <- OneAndTwo

SYMMETRY AnySession

INVARIANTS
  ApiInv
  AnswersDocumented
  ChangesForPageSession
  AttemptsLimited


  

CHECK_DEADLOCK FALSE
