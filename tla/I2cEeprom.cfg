\* Offsets that share no bit and that share one in each byte, and the values
\* whose encodings wrap.
CONSTANTS
  Radix = 4
  Offsets = {5, 10, 6}
  Values = {0, 1, 255}
  BitOr <- BitwiseOr
SPECIFICATION Spec
PROPERTIES SucceedsIffPresent ImplementsEeprom
