------------------------------ MODULE MCMigrations ------------------------------
(* Instances of Migrations for TLC. *)
EXTENDS Migrations

CONSTANTS r1, r2, r3, base, base2, fill, orders, imports, txn,
          stores, order_rows, batches

Make(o) == [makes |-> {o}, takes |-> {}, uses |-> {}]
Take(o) == [makes |-> {}, takes |-> {o}, uses |-> {}]
Use(o) == [makes |-> {}, takes |-> {}, uses |-> {o}]

\* 001 makes stores; 003 and 004 each make a table with a foreign key to it; one
\* file changes rows of stores.
Scripts == [t \in Texts |->
  CASE t \in {base, base2} -> <<Make(stores)>>
    [] t = fill -> <<Use(stores)>>
    [] t = orders -> <<Make(order_rows), Take(stores)>>
    [] t = imports -> <<Make(batches), Take(stores)>>
    [] t = txn -> <<>>]

Lf(t) == [text |-> t, eol |-> "lf"]
Crlf(t) == [text |-> t, eol |-> "crlf"]

\* A first release; the last one, from a Windows checkout, and the same with a
\* file left out; one that lacks the first file; one with the first file edited,
\* whose last file controls its own transaction.
Releases ==
  {<<Lf(base)>>,
   <<Crlf(base), Lf(orders), Lf(imports)>>,
   [n \in {1, 3} |-> IF n = 1 THEN Lf(base) ELSE Lf(imports)],
   [n \in {2} |-> Lf(fill)],
   [n \in {1, 3} |-> IF n = 1 THEN Lf(base2) ELSE Lf(txn)]}
================================================================================
