\* Two requests with the same reset token at the same time.
CONSTANTS
    Browsers = {b1, b2}
    Tokens = {t1}
    MaxPasswords = 2
    MaxDevices = 1
    Codes = {c1, c2}
SPECIFICATION AccountSpec
INVARIANTS ResetTokenServesOnce
