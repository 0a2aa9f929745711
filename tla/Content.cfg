CONSTANTS
    Fixed = {p1}
    Listed = {v1, v2}
    Quotable = {v1, v2}
    Image = {i1}
    Draft <- MCDraft
    Target <- OneTarget
    Request = {r1, r2}
    Source = "es"
    New = new
    Gone = gone
SPECIFICATION Spec
SYMMETRY Symmetry
INVARIANTS GuestReadsTheSource OneQuote RowsHaveFiles
