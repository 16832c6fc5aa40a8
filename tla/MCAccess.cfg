CONSTANTS
  Tasks = {t1, t2}
  Kids = {"k1", "k2"}
  ForeignKids = {"k2"}
  Interval = 2
  MaxNow = 3
  Requests = {r1, r2}
  Subjects = {"s1", "s2"}
  Accounts = {"a1", "a2"}
  Pages = {p1, p2}
  Users = {"u1", "u2"}
  WithEmail = {"u1"}
  Locals = {"a1", "a2"}
  Passwords = {"p1", "p2"}
SPECIFICATION Spec
INVARIANTS
  JwksSafety IdentitySafety OAuthSafety KeySafety
PROPERTIES RequestsAnswered
