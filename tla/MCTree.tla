------------------------------- MODULE MCTree --------------------------------
EXTENDS TreeScan

CONSTANTS t1, t2, t3

Ins(keys) == [i \in DOMAIN keys |-> <<"insert", keys[i]>>]
Rem(keys) == [i \in DOMAIN keys |-> <<"remove", keys[i]>>]
Scan == <<"scan", 0>>
Rng(lo, hi) == <<"range", lo, hi>>

\* A leaf with one key, and a full one; a node with three leaves; two levels; the
\* same with one key left in each leaf; three levels.
One == Ins(<<2>>)
Leaf2 == Ins(<<2, 4>>)
Flat == Ins(<<2, 4, 6, 8>>)
Two == Ins(<<2, 4, 6, 8, 10>>)
Sparse == Two \o Rem(<<4, 6, 8>>)
Three == Ins(<<2, 4, 6, 8, 10, 12, 14>>)

Does(before, first, second, third) ==
  {[fill |-> before, todo |-> (t1 :> a) @@ (t2 :> b) @@ (t3 :> c)] :
     a \in first, b \in second, c \in third}

Each(ops) == {<<op>> : op \in ops}
None == {<<>>}

MCWorkloads ==
  Does(One, {<<<<"remove", 2>>, <<"insert", 2>>>>},
       Each({<<"insert", 3>>, <<"remove", 2>>, <<"peek", 2>>}), None)
  \cup Does(Leaf2, Each({<<"insert", 6>>}),
            Each({<<"insert", 1>>, <<"insert", 2>>, <<"remove", 2>>, <<"peek", 2>>, Scan, Rng(3, 8)}), None)
  \cup Does(Two, Each({<<"insert", 7>>, <<"insert", 12>>, <<"remove", 2>>}),
            Each({<<"insert", 1>>, <<"insert", 12>>, <<"remove", 2>>, <<"remove", 8>>,
                  <<"remove", 10>>, <<"peek", 8>>, Scan,
                  Rng(5, 8), Rng(7, 9), Rng(9, 12)}), None)
  \cup Does(Flat, Each({<<"insert", 10>>, <<"insert", 5>>, <<"remove", 2>>, <<"remove", 4>>}),
            Each({Rng(3, 6), Rng(5, 9)}), None)
  \cup Does(Sparse, Each({<<"remove", 10>>}),
            Each({<<"insert", 12>>, <<"remove", 2>>, <<"peek", 2>>, Scan, Rng(2, 6), Rng(4, 10)}), None)
  \cup Does(Three, Each({<<"insert", 16>>, <<"remove", 14>>}),
            Each({<<"insert", 13>>, <<"remove", 2>>, <<"remove", 12>>, <<"peek", 14>>, Scan,
                  Rng(7, 14), Rng(13, 15)}), None)

\* A removal that is not followed by a successful clean-up of the root.
MCRemovals ==
  Does(Ins(<<3, 4, 6, 8, 10, 1, 2>>) \o Rem(<<4, 6, 8>>), Each({<<"remove", 1>>}),
       {<<<<"remove", 10>>, <<"insert", 1>>>>}, None)

\* An insertion that is rolled back while an iterator passes.
MCRollback == Does(Two, Each({<<"insert", 12>>}), Each({<<"remove", 2>>}), Each({Scan}))

\* An insertion is refused by a leaf that is being split; the split is rolled
\* back and the leaf thawed before the insertion rolls back.
MCDuplicate ==
  Does(Ins(<<2, 4, 6, 8, 10, 12, 14, 9>>), Each({<<"insert", 18>>}),
       Each({<<"remove", 2>>}), Each({<<"insert", 16>>}))

\* A key beyond a range is removed while the range is scanned.
MCRange == Does(Two, Each({<<"remove", 10>>}), Each({Rng(8, 8)}), None)
=============================================================================
