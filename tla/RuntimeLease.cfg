CONSTANTS
  Hosts = {h1, h2, h3}
  Terminals = {t1}
  Agents = {a1}
  StaleAfter = 2
  MaxTime = 3
  NoHost = NoHost
SPECIFICATION TimelySpec
INVARIANTS TypeOK SingleLease   
 
SYMMETRY HostSymmetry
CHECK_DEADLOCK FALSE
