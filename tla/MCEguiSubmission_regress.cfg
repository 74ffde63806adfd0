\* Two refreshes at once.
CONSTANTS
    Session = {s1, s2}
    NoSession = NoSession
    TheRow = TheRow
    External = {}
SPECIFICATION Spec
PROPERTY AllowedTransitionsOnly
