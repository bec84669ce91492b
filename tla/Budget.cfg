SPECIFICATION FairSpec
CONSTANTS
  Files = {f1, f2}
  Outputs = {f1}
  MaxSize = 1
  MaxWrites = 2
  Reclaims = TRUE
  Near = 1
 
PROPERTY TotalIsRepaired
