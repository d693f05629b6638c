------------------------------- MODULE Catalog -------------------------------
(***************************************************************************)
(* The Secret Catalog, secrets.yaml at the top of the repository: which    *)
(* Secrets there are, which keys each holds, and where each key's value    *)
(* comes from (tools/kluster/internal/catalog).  The catalog is a constant *)
(* of one run: kluster loads it once and never writes it.                  *)
(*                                                                         *)
(* A value is kept as what tells values apart: the key it was made for, a  *)
(* draw (one random value, one issued token), and the copy whose format    *)
(* wraps it.                                                               *)
(***************************************************************************)
EXTENDS Naturals, FiniteSets

CONSTANTS
    Secrets,        \* the Secrets, <namespace>/<name>
    Rank,           \* the catalog order: Secrets sorted by their name
    Keys,           \* every key of every Secret
    Extras,         \* keys a Secret may hold that the catalog does not list
    In,             \* the Secret a key belongs to
    Kind,           \* where a key's value comes from
    From,           \* the source of a copy
    Formatted,      \* the copies that hold their source inside a format
    RehearsalItems, \* the issued keys that name a rehearsalItem
    Draws,          \* the random or issued values one key may be given
    NoValue,        \* no value
    Plain           \* the mark of a value no format wraps

Held == Keys \union Extras

OfKind(kind) == {k \in Keys : Kind[k] = kind}
Generated == OfKind("generated")
Issued    == OfKind("issued")
Copies    == OfKind("copy")
Literals  == OfKind("literal")

\* The draws, and the one value a literal writes in the catalog.
Drawn   == Draws \union {"literal"}
Value   == [for : Held, draw : Drawn, in : Copies \union {Plain}]
Maybe   == Value \union {NoValue}
Contents == [Held -> Maybe]

\* What Parse accepts: a key is of one of four kinds, a copy copies a
\* generated or an issued key the catalog holds, a format belongs to a copy
\* and a rehearsal item to an issued key, and no Secret is without keys.
CatalogValid ==
    /\ In \in [Held -> Secrets]
    /\ Keys \intersect Extras = {}
    /\ Kind \in [Keys -> {"generated", "issued", "copy", "literal"}]
    /\ From \in [Copies -> Generated \union Issued]
    /\ Formatted \subseteq Copies
    /\ RehearsalItems \subseteq Issued
    /\ \A s \in Secrets : \E k \in Keys : In[k] = s

ASSUME CatalogIsValid == CatalogValid

\* The Secrets are listed, read and written in one order.
ASSUME RankOrders ==
    /\ Rank \in [Secrets -> Nat]
    /\ \A s, t \in Secrets : Rank[s] = Rank[t] => s = t

ASSUME ValuesDiffer ==
    /\ NoValue \notin Value
    /\ Plain \notin Copies
    /\ "literal" \notin Draws

\* The keys the catalog lists for s, and every key s may hold.
KeyNames(s) == {k \in Keys : In[k] = s}
HeldBy(s)   == {k \in Held : In[k] = s}

\* A value of key k as it was drawn, and what the catalog writes for a literal.
Fresh(k, d)     == [for |-> k, draw |-> d, in |-> Plain]
LiteralValue(k) == Fresh(k, "literal")

\* A copy holds its source's value, inside its format when it has one.
Render(k, v) == IF k \in Formatted THEN [v EXCEPT !.in = k] ELSE v

\* A rehearsal has a value for every key but an issued one with no item of
\* the rehearsal's own.
InRehearsal(k) == Kind[k] # "issued" \/ k \in RehearsalItems

Empty == [k \in Held |-> NoValue]

\* The next Secret of a set, in catalog order.
IsFirst(s, S) == s \in S /\ \A t \in S : Rank[s] <= Rank[t]
=============================================================================
