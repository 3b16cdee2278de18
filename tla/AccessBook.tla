----------------------------- MODULE AccessBook -----------------------------
(***************************************************************************)
(* What the access database promises to a channel's managers: a book with  *)
(* at most one entry per nick, changed one entry at a time.  Where entries *)
(* are kept (memory, file, both) is not part of the promise: loading,      *)
(* caching, writing back and evicting a record leave the book as it is.    *)
(***************************************************************************)
CONSTANTS Chan, Names, Masks, Levels

VARIABLE book

Entry == [realname : Names, match : Masks, access : Levels, suspend : BOOLEAN]

OnePerName(b) == \A e, f \in b : e.realname = f.realname => e = f

Init ==
  /\ book \in [Chan -> SUBSET Entry]
  /\ \A c \in Chan : OnePerName(book[c])

Add(c, e) ==
  /\ \A f \in book[c] : f.realname # e.realname
  /\ book' = [book EXCEPT ![c] = @ \cup {e}]

Remove(c, e) ==
  book' = [book EXCEPT ![c] = @ \ {e}]

\* One of mask, level and suspension changes; the nick never does.
Replace(c, e, f) == book' = [book EXCEPT ![c] = (@ \ {e}) \cup {f}]
Edit(c, e) ==
  \/ \E m \in Masks : Replace(c, e, [e EXCEPT !.match = m])
  \/ \E l \in Levels : Replace(c, e, [e EXCEPT !.access = l])
  \/ \E s \in BOOLEAN : Replace(c, e, [e EXCEPT !.suspend = s])

Expire ==
  book' = [c \in Chan |-> {[e EXCEPT !.suspend = FALSE] : e \in book[c]}]

Next ==
  \/ \E c \in Chan : \E e \in book[c] : Remove(c, e) \/ Edit(c, e)
  \/ \E c \in Chan, e \in Entry : Add(c, e)
  \/ Expire

Spec == Init /\ [][Next]_book
=============================================================================
