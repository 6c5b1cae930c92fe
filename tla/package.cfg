\* Three packages, one of which may be KEYWORD, two symbols of one name.
CONSTANTS
  a = a  b = b  c = c  s1 = s1  s2 = s2  word = word
  Packages = {a, b, c}
  Symbols = {s1, s2}
  Names = {word}
  NameOf <- OneName
  Nobody = Nobody
  Slips = {}
  MaxCopies = 2
SYMMETRY Renamings
SPECIFICATION Spec
INVARIANTS TypeOK     Mirrored HomeKnows
 
\* Every package of the instance may have been deleted.
CHECK_DEADLOCK FALSE
