-------------------------------- MODULE Listing --------------------------------
(***************************************************************************)
(* GET /v1/messages: clients read pages and follow next_cursor, while      *)
(* messages are added.  A page starts at the beginning of the list, ordered *)
(* by created_at and id: it is described by its length.  The cursor is a   *)
(* number, and the query compares it with ids, which are UUIDs: no page    *)
(* but the first can be fetched.                                           *)
(***************************************************************************)
EXTENDS Integers

CONSTANTS
    MaxMessages,
    LimitParam,    \* values of ?limit= that are tried
    CursorParam,   \* cursors clients make up
    NotANumber,    \* what strconv does not parse
    MaxRequests

DefaultLimit == 20
MaxLimit == 100

VARIABLES
    count,     \* messages there are
    answer,    \* the last answer: page or error, number of messages, next_cursor
    asked,     \* the cursor it is the answer to
    received,  \* values of next_cursor clients were given
    requests

vars == <<count, answer, asked, received, requests>>

Error == [kind |-> "error", data |-> 0, next |-> 0]
Page(data, next) == [kind |-> "page", data |-> data, next |-> next]

Init ==
    /\ count = 0
    /\ answer = Error
    /\ asked = 0
    /\ received = {}
    /\ requests = 0

Insert ==
    /\ count < MaxMessages
    /\ count' = count + 1
    /\ UNCHANGED <<answer, asked, received, requests>>

Limit(param) == IF param # NotANumber /\ param \in 1 .. MaxLimit THEN param ELSE DefaultLimit
Cursor(param) == IF param = NotANumber THEN 0 ELSE param

\* Mutant: a full page is taken for a sign of more.
FullPageHasNext(cursor, limit) ==
    IF cursor > 0 THEN Error
    ELSE IF count >= limit THEN Page(limit, cursor + limit) ELSE Page(count, 0)

\* limit + 1 rows are asked for, the last one only to see whether there is more.
\* A cursor that is no UUID is an error of the database, a negative one ignored.
GetMessagesPaginated(cursor, limit) ==
    IF cursor > 0 THEN Error
    ELSE IF count > limit THEN Page(limit, cursor + limit) ELSE Page(count, 0)

\* next_cursor is left out unless it is positive.
GetMessages ==
    \E l \in LimitParam, c \in CursorParam \cup received :
        /\ requests < MaxRequests /\ requests' = requests + 1
        /\ asked' = Cursor(c)
        /\ answer' = [GetMessagesPaginated(Cursor(c), Limit(l)) EXCEPT !.next = IF @ > 0 THEN @ ELSE 0]
        /\ received' = received \cup ({answer'.next} \ {0})
        /\ UNCHANGED count

Next == Insert \/ GetMessages

Spec == Init /\ [][Next]_vars

-----------------------------------------------------------------------------
(* Properties *)

\* What a client is told about the rest of the list is true (message.go 81-93):
\* next_cursor is in a page only if there is more, whatever the cursor, and it is
\* left out only if there is not.  Only a negative cursor, which no answer gives,
\* may hide the rest; a positive one gets no page at all.
PagesAreHonest ==
    [][requests' # requests /\ answer'.kind = "page"
        => /\ answer'.next # 0 => answer'.data < count
           /\ answer'.next = 0 => answer'.data = count \/ asked' < 0]_vars

\* Pagination by cursors (handlers/message.go 66, README.md 184-186): a client that
\* passes on the next_cursor it was given gets a page.  Not so: the cursor is a
\* position, and the query takes it for the id of a message.
CursorsLeadOn ==
    [][requests' # requests /\ asked' \in received => answer'.kind = "page"]_vars
===============================================================================
