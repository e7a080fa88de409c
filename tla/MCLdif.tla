------------------------------- MODULE MCLdif -------------------------------
(* Small instance of Ldif for TLC: three names in a chain and beside it.    *)
EXTENDS Ldif, TLC

CONSTANTS top, child, other, cn, x, y

Tree == (top :> Root) @@ (child :> top) @@ (other :> Root)

\* Plain, base64, and values with a line break before nothing, before a word,
\* before what reads like an attribute, and before what reads like a name.
Texts == {<<Word(x)>>, <<Word(x), Blank>>, <<Word(x), Word(y)>>,
          <<Word(x), AttrLine(cn, Word(y), FALSE)>>, <<Word(x), DnLine(child)>>}
Vals    == {Value(cn, t, FALSE) : t \in Texts} \cup {Value(cn, <<Word(x)>>, TRUE)}
Second  == Value(cn, <<Word(y)>>, FALSE)
Entry(d) == {[dn |-> d, values |-> <<v>>] : v \in Vals}
                \cup {[dn |-> d, values |-> <<v, Second>>] : v \in Vals}
Referral == [dn |-> None, values |-> <<Second>>]

\* In the order the server chose, with at most one entry that is not simple.
Simple(d) == [dn |-> d, values |-> <<Second>>]
AllSources ==
    UNION {{<<e, Simple(child), Simple(other)>>, <<Simple(child), e>>,
            <<Simple(other), Referral, e, Simple(child)>>} : e \in Entry(top)}
      \cup {<<Simple(top), e>> : e \in Entry(child)}
      \cup {<<e, Simple(top), Simple(child)>> : e \in Entry(other)}

Old == {[attr |-> cn, value |-> Word(y), coded |-> FALSE]}
AllTargets == {<<>>, top :> {}, other :> Old, (top :> Old) @@ (child :> {})}
EmptyTarget == {<<>>}
=============================================================================
