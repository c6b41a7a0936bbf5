----------------------------- MODULE MCSettings -----------------------------
(***************************************************************************)
(* The config file of one or two folders: what somebody wrote by hand, old  *)
(* flags, odd slashes and repeated excludes included, and what the window's *)
(* dialogs add.                                                             *)
(***************************************************************************)
EXTENDS Settings

PairEntry(name, local, remote, exclude) ==
    [name |-> name, local |-> local, remote |-> remote, exclude |-> exclude]
HandText(root, set, up, pairs) ==
    [root |-> root, set |-> set, up |-> up, down |-> <<"-c", "merge">>, pairs |-> pairs]

MCHome == <<"/", "h">>
MCRoot == <<"/", "y">>
MCValue == <<"/", "y">>
MCLocals == {<<"/", "x">>, <<"/", "x", "/", "y">>}
MCForeign == {<<"/", "x">>, <<"/", "w">>}  \* one folder's name is not all ASCII
MCRemotes == {<<"/", "y">>, <<"/", "y", "y">>, <<"/", "y", "/", "x">>, <<"/", "x", "/", "x">>}
MCRoots == {<<"/", "y">>, <<"/", "y", "/">>, <<"/">>, <<"/", "x">>}

Docs == PairEntry("docs", <<"~", "/", "x">>, <<"x", "/">>, <<<<"/", "y">>, <<"/">>, <<"y", "/">>>>)
Music == PairEntry("music", <<"$", "{", "x", "}", "/", "x">>, <<"/", "x", "/", "/">>, <<>>)

MCHandWritten ==
    {Broken, Emptied,
     HandText(<<"/", "y">>, <<>>, <<>>, <<Docs>>),
     HandText(<<"/", "y", "/">>, [theme |-> "DARK", credentials_store |-> "pass"],
             <<"-c", "keep-both">>, <<Docs, Music>>),
     HandText(<<"/">>, [conflict |-> "skip", max_delete_percent |-> 100],
             <<"-f", "skip", "-c", "merge">>, <<Music>>),
     HandText(<<"/", "y">>, [max_delete_percent |-> 101], <<>>, <<Docs>>),
     HandText(<<"/", "y">>, <<>>, <<>>, <<Docs, Docs>>)}
=============================================================================
