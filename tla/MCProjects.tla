----------------------------- MODULE MCProjects -----------------------------
\* Instances of Projects: five mails in three threads, of which the fourth is tagged; two of
\* the addresses are one person's.
EXTENDS Projects, TLC

CONSTANTS a, b, c, d, x, y, z, k1, k2, ph, l1
MCEmails == <<a, b, c, d>>
MCAlike == {<<a, b>>}
Mail(n, t, day, s, to, tx, top, ln, no, tg) ==
  [n |-> n, thread |-> t, day |-> day, sender |-> s, to |-> to, text |-> tx, topic |-> top, links |-> ln, noise |-> no, tagged |-> tg]
M1 == Mail(1, 1, 0, c, {a}, x, <<3, 1>>, {}, FALSE, FALSE)
M2 == Mail(2, 1, 2, b, {c}, y, <<1, 0>>, {l1}, FALSE, FALSE)
M3 == Mail(3, 2, 2, c, {a, d}, x, <<1, 2>>, {l1}, FALSE, FALSE)
M4 == Mail(4, 2, 3, d, {a}, z, <<0, 1>>, {}, FALSE, TRUE)
M5 == Mail(5, 3, 9, d, {a}, z, <<1, 3>>, {}, FALSE, FALSE)
MCUniverse == {M1, M2, M3, M4, M5}
MCWords == (x :> {k1} @@ y :> {k1, k2} @@ z :> {ph})
MCLn == <<0, 69, 110, 139>>
MCWindows == {{M1}, {M1, M2, M3}, {M4}, {M1, M5}, {M3, M5}}
=============================================================================
