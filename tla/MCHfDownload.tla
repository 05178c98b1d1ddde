---------------------------- MODULE MCHfDownload ----------------------------
\* Small instances of HfDownload: a large file, one of known and one of unknown
\* size, which may have become too long, be spelled alike or be hashed anew.
EXTENDS HfDownload, TLC

CONSTANTS weights, WEIGHTS, model, config, readme, empty, sha1, sha2, text

MCFold == (weights :> weights) @@ (WEIGHTS :> weights) @@ (model :> model) @@ (config :> config) @@ (readme :> readme) @@ (empty :> empty)

Large(path, sha) == [path |-> path, size |-> None, lfsSize |-> 2, sha |-> sha, length |-> 2, content |-> sha]
Small(path) == [path |-> path, size |-> 2, lfsSize |-> None, sha |-> None, length |-> 2, content |-> sha2]
Plain(path, length) == [path |-> path, size |-> None, lfsSize |-> None, sha |-> None, length |-> length, content |-> text]

Unsized(path, sha) == [path |-> path, size |-> None, lfsSize |-> None, sha |-> sha, length |-> 2, content |-> sha]

Empty(path) == [path |-> path, size |-> 0, lfsSize |-> None, sha |-> None, length |-> 0, content |-> text]

MCInfos == {
    <<Plain(<<readme>>, 1), Large(<<weights, model>>, sha1), Small(<<config>>)>>,
    <<Large(<<weights, model>>, sha2), Small(<<config>>), Empty(<<empty>>)>>,
    <<Unsized(<<weights>>, sha1), Plain(<<readme>>, 1)>>,
    <<Large(<<weights, model>>, sha1), Large(<<WEIGHTS, model>>, sha1)>>}
MCWhole == (sha1 :> 2) @@ (sha2 :> 2)
MCPublished == (<<readme>> :> None) @@ (<<weights>> :> None) @@ (<<empty>> :> None) @@ (<<config>> :> None) @@ (<<weights, model>> :> [path |-> <<weights, model>>, len |-> 2, of |-> sha1])
=============================================================================
