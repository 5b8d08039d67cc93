----------------------------- MODULE MCMemoryMap -----------------------------
(* What the ROMs give the controllers, and the addresses where the decoding
   of memory.c changes its mind. *)
EXTENDS MemoryMap, TLC

None == (BASE :> {}) @@ (MASK :> {})

OfferGX ==
  [i \in 0 .. 5 |->
     CASE i = 0 -> (BASE :> {\h100}) @@ (MASK :> {})
       [] i = 1 -> (BASE :> {\h40000, \h80000, \hc0000}) @@ (MASK :> {\hf0000, \hc0000, \hfc000})
       [] i = 2 -> (BASE :> {\h7f000, \h90000}) @@ (MASK :> {\hff000})
       [] i = 3 -> (BASE :> {\ha0000, \hc0000, \h7e000}) @@ (MASK :> {\hc0000})
       [] i = 4 -> (BASE :> {\hb0000, \hc0000}) @@ (MASK :> {\hc0000})
       [] OTHER -> None]

OfferSX ==
  [i \in 0 .. 5 |->
     CASE i = 0 -> (BASE :> {\h100}) @@ (MASK :> {})
       [] i = 1 -> (BASE :> {\h70000, \hf0000}) @@ (MASK :> {\hf0000, \hfc000, \hfe000})
       [] i \in {2, 3} -> (BASE :> {\h80000, \hc0000}) @@ (MASK :> {\hc0000})
       [] i = 4 -> (BASE :> {\hd0000}) @@ (MASK :> {\hff000})
       [] OTHER -> None]

(* A chain that ends with RAM. *)
OfferRamGX ==
  [OfferGX EXCEPT ![1] = (BASE :> {\h80000, \hc0000}) @@ (MASK :> {\hc0000}), ![2] = None]

WithdrawnGX == {0, \h100, \h80000, \hc0000, \h7f000}
WithdrawnSX == {\h80000}

(* Files for cards: none, one of a size no card has, one that cannot be read, an
   empty one, and cards of 32K, 128K, three banks and all 32. *)
Card == [size |-> \h10000, readable |-> TRUE, writable |-> TRUE]
NoFile == [Card EXCEPT !.size = Absent]
Small == [Card EXCEPT !.size = 2]
Unreadable == [Card EXCEPT !.readable = FALSE]
Rom128 == [Card EXCEPT !.size = \h40000, !.writable = FALSE]
Banks(n) == [Card EXCEPT !.size = n * BANK_SIZE]

CardsGX == {<<NoFile, NoFile>>, <<Card, Banks(3)>>, <<Small, Banks(32)>>, <<Unreadable, Small>>,
            <<Rom128, Banks(0)>>}
CardsSX == {<<Card, Rom128>>, <<Small, Card>>, <<Rom128, NoFile>>}
NoCards == {<<NoFile, NoFile>>}

Boundaries ==
  {0, \hff, \h100, \h13f, \h140, \h40000, \h4ffff, \h70000, \h71fff, \h72000,
   \h73fff, \h74000, \h7dfff, \h7e000, \h7efff, \h80000, \h81fff, \h82000, \h83fff,
   \h84000, \h7ffff, \h8ffff, \h90000, \h90fff, \h91000, \h9ffff, \ha0000, \hb0000,
   \hbffff, \hc0000, \hc1fff, \hc2000, \hc3fff, \hc4000, \hcffff, \hd0000, \heffff,
   \hf0000, \hfffff}
BankRegisters == {\h7f000, \h7f03f, \h7f043, \h7f07f, \h7f080}
AddressGX == Boundaries \cup BankRegisters
==============================================================================
