SPECIFICATION Spec
CONSTANTS
  MaxSockets = 2
  MaxPosts = 4
  MaxMounts = 3
INVARIANTS ConnectionsAccounted
PROPERTIES StatusSettles
