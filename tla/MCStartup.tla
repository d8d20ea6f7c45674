----------------------------- MODULE MCStartup -----------------------------
(* Two seeds of a kind wherever they can overlap; two crashes.             *)
EXTENDS Startup

CONSTANTS s1, admin, manager, supporter, p1, p2, h1, h2

MCOneSetting == {s1}
MCRoles == {manager, supporter}
MCPermissions == {p1, p2}
MCSlots == {h1, h2}
=============================================================================
