SPECIFICATION Spec
CONSTANTS
  a = a
  b = b
  c = c
  missing = missing
  dot_b = dot_b
  fa = fa
  fb = fb
  fc = fc
  x = x
  y = y
  z = z
  u = u
  w = w
  p = p
  sub_x = sub_x
  out = out
  fx = fx
  fx2 = fx2
  fy = fy
  fz = fz
  fu = fu
  fu2 = fu2
  fp = fp
  eu = eu
  ew = ew
  fo = fo
  NoFile = NoFile
  Keys <- MCKeys
  Files <- MCFiles
  Spellings <- MCSpellings
  Canon <- MCCanon
  Includes <- Shadowing
  Embedded <- MCEmbedded
  Given <- MCGiven
  Unreadable = {fu}
  Malformed = {fp}
  Inputs <- ShadowedInputs
  kMaxImportDepth = 3
INVARIANT FirstIncludeOwns
CHECK_DEADLOCK FALSE
