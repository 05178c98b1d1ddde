---------------------------- MODULE MCDiscovery -----------------------------
\* Small instances of Discovery: domains that share addresses, and lists that
\* leave room for all, for one and for none of the seeds.
EXTENDS Discovery, TLC

CONSTANTS seed1, seed2, seed3, seed4, router, seed2alias, dom1, dom2, dom3

MCCanon == (seed1 :> seed1) @@ (seed2 :> seed2) @@ (seed3 :> seed3) @@ (seed4 :> seed4) @@ (router :> router) @@ (seed2alias :> seed2) @@ (Junk :> Junk)

Txt(bytes, tokens) == [bytes |-> bytes, tokens |-> tokens]
MCAnswers == (dom1 :> {<<>>, <<Txt(2, <<router, Junk, seed1, seed2alias>>), Txt(2, <<seed3>>)>>})
          @@ (dom2 :> {<<Txt(3, <<seed2, seed3>>), Txt(1, <<seed4>>)>>, <<Txt(1, <<seed4, seed1, seed2>>)>>})
          @@ (dom3 :> {<<Txt(1, <<seed3, seed4>>)>>})

List(builtin, remembered, peers) == [builtin |-> builtin, remembered |-> remembered, peers |-> peers]
MCSources == {List(<<>>, <<>>, <<>>),
              List(<<router>>, <<seed2alias, Junk, seed3, seed1>>, <<seed2alias>>),
              List(<<router, seed1>>, <<seed3>>, <<seed4>>),
              List(<<router, seed1, seed2>>, <<>>, <<seed3, seed4>>)}
=============================================================================
