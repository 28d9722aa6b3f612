\* Two callers, one key that only the first uses and one they share.
CONSTANTS
  f = f
  g = g
  text = text
  scalar = scalar
  c1 = c1
  c2 = c2
  k1 = k1
  k2 = k2
  Callers = {c1, c2}
  Keys = {k1, k2}
  Writers <- OneShared
  Fields = {f, g}
  Values = {1, 2}
  Texts = {text}
  Scalars = {scalar}
  Null = Null
  Absent = Absent
  None = None
  Lifetimes <- Short
  MaxCalls = 3
SPECIFICATION Spec
SYMMETRY Alike
INVARIANT TypeOK
PROPERTY UpdateKeepsOthers
