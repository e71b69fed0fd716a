SPECIFICATION ListSpec
CONSTANTS
    Process = {p, q, r}
    Serial = {d, e}
INVARIANTS ApprovalsKept
