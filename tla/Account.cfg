SPECIFICATION Spec
CONSTANTS
  a1 = a1
  a2 = a2
  m1 = m1
  Spotify = {a1, a2}
  Mail = {m1}
  Address <- MCAddress
  User = {u1, u2, u3}
  Login = {l1, l2}
  Callback = {c1, c2, c3}
  NoUser = NoUser
  NoMail = NoMail
  NoRow = NoRow
  NoSpotify = NoSpotify
INVARIANTS
  OneAccount
  TokensMatch
  WarmedOnce
SYMMETRY Symmetry
CHECK_DEADLOCK FALSE
