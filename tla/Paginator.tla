------------------------------- MODULE Paginator -------------------------------
(***************************************************************************)
(* The paginator (database/paginator.go): a page of the rows of a table,   *)
(* and how many pages there are. Other transactions change the table       *)
(* between the calls; Find is one transaction, taken to be isolated.       *)
(***************************************************************************)
EXTENDS Integers, Sequences

CONSTANTS
    Word,               \* bits of an int
    Pages, Sizes,       \* what CurrentPage and PageSize may be
    MaxRows             \* bound on the table

ASSUME PagesAssumption == Pages \subseteq Int
ASSUME SizesAssumption == Sizes \subseteq Nat \ {0}
ASSUME WordAssumption == Word \in Nat \ {0} /\ MaxRows \in Nat

VARIABLES
    rows,               \* the table, in the order of the query
    page, size,         \* CurrentPage, PageSize
    info,               \* Total, MaxPage and loadedPageInfo
    counted,            \* the rows that were counted
    records,            \* Records
    found               \* outcome of Find: none yet, ok or error

paginatorVars == <<rows, page, size, info, counted, records, found>>

Wrapped(n) == ((n + 2^(Word - 1)) % 2^Word) - 2^(Word - 1)

\* Mutant: one page more when the last is full.
PageInfoFloor(n) == [total |-> n, maxPage |-> n \div size + 1, loaded |-> TRUE]

\* updatePageInfo: at least one page.
PageInfo(n) ==
    LET ceil == (n + size - 1) \div size
    IN  [total |-> n, maxPage |-> IF ceil = 0 THEN 1 ELSE ceil, loaded |-> TRUE]

\* paginateScope, rawStatement; GORM writes no OFFSET unless it is positive.
Selected ==
    LET offset == Wrapped((page - 1) * size)
        from == IF offset > 0 THEN offset ELSE 0
    IN  SubSeq(rows, from + 1, IF from + size < Len(rows) THEN from + size ELSE Len(rows))

UpdatePageInfo ==
    /\ found = "none"
    /\ \/ info' = PageInfo(Len(rows)) /\ counted' = rows
       \/ UNCHANGED <<info, counted>>       \* the count fails
    /\ UNCHANGED <<rows, page, size, records, found>>

\* Find: its query replaces DB, so that it is called once.
Find ==
    /\ found = "none"
    /\ \/ info.loaded /\ UNCHANGED <<info, counted>>
       \/ ~info.loaded /\ info' = PageInfo(Len(rows)) /\ counted' = rows
    /\ records' = Selected /\ found' = "ok"
    /\ UNCHANGED <<rows, page, size>>

\* The count or the query fails: what was known of the pages is not to be used.
FindFails ==
    /\ found = "none"
    /\ found' = "error"
    /\ \/ info' = [info EXCEPT !.loaded = FALSE] /\ UNCHANGED counted
       \/ info' = [PageInfo(Len(rows)) EXCEPT !.loaded = FALSE] /\ counted' = rows /\ ~info.loaded
    /\ UNCHANGED <<rows, page, size, records>>

Insert ==
    /\ found = "none" /\ Len(rows) < MaxRows
    /\ rows' = Append(rows, Len(rows) + 1)
    /\ UNCHANGED <<page, size, info, counted, records, found>>

Delete ==
    /\ found = "none" /\ rows # <<>>
    /\ rows' = [i \in 1..(Len(rows) - 1) |-> i]
    /\ UNCHANGED <<page, size, info, counted, records, found>>

PaginatorInit ==
    /\ \E n \in 0..MaxRows : rows = [i \in 1..n |-> i]
    /\ page \in Pages /\ size \in Sizes
    /\ info = [total |-> 0, maxPage |-> 0, loaded |-> FALSE]
    /\ counted = <<>> /\ records = <<>> /\ found = "none"

PaginatorNext == UpdatePageInfo \/ Find \/ FindFails \/ Insert \/ Delete
PaginatorSpec == PaginatorInit /\ [][PaginatorNext]_paginatorVars

-----------------------------------------------------------------------------

Overflows == Wrapped((page - 1) * size) # (page - 1) * size

\* Which page a row belongs to.
PageOf(i) == (i - 1) \div size + 1

\* A page that was found holds the rows of that page, all of them and in their order, if
\* the page was positive and its offset an int; the number of pages is that of the last
\* row that was counted, 1 if there was none, so that the pages 1 to MaxPage show every
\* row once and no page between is empty.
PageExact ==
    found = "ok" =>
        /\ info.total = Len(counted)
        /\ info.maxPage = IF counted = <<>> THEN 1 ELSE PageOf(Len(counted))
        /\ page > 0 /\ ~Overflows =>
              /\ {records[i] : i \in DOMAIN records} = {rows[i] : i \in {j \in DOMAIN rows : PageOf(j) = page}}
              /\ \A i, j \in DOMAIN records : i < j => records[i] < records[j]
=============================================================================
