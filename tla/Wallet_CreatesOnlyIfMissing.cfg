SPECIFICATION Spec
CONSTANTS
  Key = {k1}
  Template = {t1}
  Ranged = {t1}
  Nil = Nil
INVARIANT CreatesOnlyIfMissing
