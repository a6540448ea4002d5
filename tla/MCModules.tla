----------------------------- MODULE MCModules -----------------------------
(***************************************************************************)
(* Model checking of Modules: all programs made of a main file and two     *)
(* more files `a' and `b' with the items below. b is in the first include  *)
(* path, in the second or missing; a and b may import each other, main, or *)
(* themselves; f is declared in a, and in b next to or instead of g.       *)
(***************************************************************************)
EXTENDS Modules, TLC

CONSTANTS main, a, b, f, g, h, al

MainFiles ==
    { <<first>> \o second \o <<Fn(h, FALSE, call[1], call[2])>> :
        first \in {Import("open", None, None, a), Import("as", al, None, a),
                   Import("only", f, f, a), Import("only", f, g, a)},
        second \in {<<>>, <<Import("open", None, None, b)>>},
        call \in {<<None, f>>, <<None, g>>, <<al, g>>} }

AFiles ==
    { IF early THEN import \o <<fn>> ELSE <<fn>> \o import :
        early \in BOOLEAN,
        import \in {<<>>} \cup {<<Import("open", None, None, p)>> : p \in Path}
                          \cup {<<Import("only", g, f, b)>>},
        fn \in {Fn(f, private, None, callee) : private \in BOOLEAN, callee \in {None, g, h}} }

BFiles ==
    { import \o <<Fn(def[1], private, None, def[2])>> \o last :
        import \in {<<>>, <<Import("open", None, None, a)>>},
        def \in {<<f, None>>, <<g, f>>, <<g, h>>}, private \in BOOLEAN,
        last \in {<<>>, <<Fn(h, FALSE, None, None)>>} }

Programs ==
    { (<<1, main>> :> m) @@ (<<1, a>> :> x) @@ (<<r, b>> :> y) :
        m \in MainFiles, x \in AFiles, y \in BFiles, r \in {2} }
    \cup { (<<1, main>> :> m) @@ (<<1, a>> :> x) : m \in MainFiles, x \in AFiles }
    \cup { (<<2, a>> :> <<>>) }
=============================================================================
