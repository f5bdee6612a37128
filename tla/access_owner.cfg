\* Two owners and two requests at a time.
CONSTANTS
  Users = {"u1", "u2"}
  Founder = "u1"
  InviteIds = {"i1"}
  KeyIds = {"k1"}
  Requests = {"q1", "q2"}
  GivenRoles = {"owner", "admin"}
SPECIFICATION AccessSpec
CHECK_DEADLOCK FALSE
INVARIANTS HasOwner
