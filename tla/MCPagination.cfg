\* Two overlapping listings of a catalog that changes once, with and without
\* max_pages, of registries of every style.  Three names and pages of one, two or
\* three where two are asked for: the last page may be empty, short, full or longer.
CONSTANTS
    l1 = l1
    l2 = l2
    None = None
    Names <- MCNames
    PageSize = 2
    Styles <- MCStyles
    Listers = {l1, l2}
    Limits = {2, 9}
    Bounds = {None, 3}
    MaxChanges = 1
SPECIFICATION FairSpec
INVARIANTS TypeOK ListsWhatIsThere NoDuplicates WorkBounded
PROPERTIES Terminates
CHECK_DEADLOCK FALSE
