------------------------------ MODULE MCInbound ------------------------------
(* Instances of Inbound: what the peer sends, in four short scripts.         *)
EXTENDS Inbound

M(id, kind, on) == [id |-> id, kind |-> kind, on |-> on]

(* An attachment that is tagged and unsent; a tag and a delete that come     *)
(* before their target, as a peer restored from a backup sends them; replies *)
(* to the user's message around an unknown kind; a text that is unsent.      *)
Talk ==
    {<<M("f", "attach", "-"), M("x1", "tag", "f"), M("x2", "untag", "f"), M("x3", "delete", "f")>>,
     <<M("x1", "tag", "a"), M("x2", "delete", "b"), M("a", "text", "-"), M("b", "text", "-")>>,
     <<M("x1", "receipt", "m"), M("x2", "junk", "-"), M("x3", "delete", "m"), M("a", "text", "-")>>,
     <<M("a", "text", "-"), M("x1", "quiet", "a"), M("x4", "drop", "-"), M("x2", "delete", "a"), M("x3", "read", "m")>>}

(* An attachment and its delete.                                             *)
File == {<<M("f", "attach", "-"), M("x1", "delete", "f")>>}

AnyPoint == Points
==============================================================================
