CONSTANTS
  Addrs = {a1, a2, a3, a4}
  Null = Null
  US = US
  x = x
  Texts <- PlainTexts
  MaxCached = 2
  MaxVersion = 4
SPECIFICATION Spec
INVARIANTS TypeOK AnswerIsFresh
PROPERTY NeverOlder
SYMMETRY AddrSymmetry
