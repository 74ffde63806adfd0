------------------------------- MODULE MCSales -------------------------------
(* Sales on small instances. *)
EXTENDS MCOrders, Sales

\* Two customers of two types and two articles.  Order 3 is the second
\* customer's; order 2 has both articles, at another price than the others.
Types == [c \in {1, 2} |-> IF c = 1 THEN "dealer" ELSE "end_user"]
Buyer == [o \in {1, 2, 3} |-> IF o = 3 THEN 2 ELSE 1]
Prices == [o \in {1, 2, 3} |-> CASE o = 1 -> [p \in {1} |-> 2]
                                 [] o = 2 -> [p \in {1, 2} |-> 4 - p]
                                 [] o = 3 -> [p \in {2} |-> 4]]

\* Article 2 may turn into a part again or into freight, which is no merchandise.
AtFirst == [p \in {1, 2} |-> IF p = 1 THEN "tools" ELSE "parts"]
Turns == {<<2, "parts">>, <<2, "freight">>}

\* Three lines, the middle one of an earlier invoice; on its day an order and an
\* invoice of the supplier, on the next two orders, one of them without prices.
Dates == [l \in {2, 5, 7} |-> IF l = 5 THEN 1 ELSE 2]
OneBrought == [l \in {2, 5, 7} |-> IF l = 7 THEN 5 ELSE 0]
Bought == {[date |-> 1, priority |-> 0, price |-> 2],
           [date |-> 1, priority |-> 1, price |-> 3],
           [date |-> 2, priority |-> 0, price |-> 0],
           [date |-> 2, priority |-> 0, price |-> 3]}

\* Submissions are sent once.
Stati == {"PENDING", "QUEUED", "SENT", "ACKED", "FAILED", "RETRYING", "DEAD_LETTER"}
SentOnce == [st \in Stati |-> IF st = "QUEUED" THEN "SENT" ELSE st]
=============================================================================
