--------------------------- MODULE MCMaintenance ---------------------------
(* The diagnostic center over two entities, two review cards and two issues. *)
EXTENDS Maintenance
CONSTANTS e1, e2, i1, i2

MCEntities == {e1, e2}
MCSelections == {<<e1, e2>>}
\* a card that can be acted on, and one whose contract lacks the source
MCItems == {[id |-> "item1", source |-> e1, target |-> e2],
            [id |-> "item2", source |-> NoEntity, target |-> e2]}

\* The sections of the entity page share the two mutations and nothing else:
\* one of them is used.  Two applies, or one and a change made elsewhere.
Bounded ==
  /\ card = NoCard \/ (form = NoForm /\ (asked = NoAsked \/ asked.by = "card"))
  /\ sent + breaks <= 2
=============================================================================
