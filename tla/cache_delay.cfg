\* One caller delays the expiry of a key.
CONSTANTS
  f = f
  g = g
  text = text
  scalar = scalar
  c1 = c1
  c2 = c2
  k1 = k1
  k2 = k2
  Callers = {c1}
  Keys = {k1}
  Writers <- OneCaller
  Fields = {f, g}
  Values = {1, 2}
  Texts = {text}
  Scalars = {scalar}
  Null = Null
  Absent = Absent
  None = None
  Lifetimes <- Short
  MaxCalls = 2
SPECIFICATION Spec
PROPERTY DelayExtends
