CONSTANTS
    t1 = t1
    t2 = t2
    ann = ann
    spaced = spaced
    addr = addr
    upper = upper
    stars = stars
    odd = odd
    phone = phone
    digits = digits
    number = number
    NoText = NoText
    Absent = Absent
    NoFile = NoFile
    Texts = {ann, spaced, addr, upper, stars, odd, phone, digits, number, NoText}
    Shaped = {addr, upper}
    Dotted = {addr, upper, odd}
    Found = {ann, upper}
    Spelled <- MCSpelled
    Trim <- MCTrim
    Lower <- MCLower
    Digits <- MCDigits
    StarEmail <- MCStarEmail
    StarPhone <- MCStarPhone
    Threads = {t1, t2}
    Teams = {{}, {t1}, {t1, t2}}
    Paths = {"a", "b"}
    Contents <- MCContents
    Sizes = {0, 2}

SPECIFICATION Spec
INVARIANTS TypeOK OutputRight SampleRight OthersUntouched CountersRight
PROPERTY Ends
CHECK_DEADLOCK FALSE
