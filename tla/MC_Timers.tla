----------------------------- MODULE MC_Timers -----------------------------
EXTENDS Timers
CONSTANTS alice, carol, hal
At(user, net, node) == [user |-> user, net |-> net, node |-> node]

\* alice at 10.0.0.1, carol at 2001:db8:1::5, and hal, at the next address of alice's
\* network, who shows a hidden host.
Sites == alice :> At("al", "10.0", "0.1") @@ carol :> At("ca", "2001:db8:1:0", "0:0:0:5")
           @@ hal :> At("ha", "10.0", "0.2")
Shows == [Sites EXCEPT ![hal] = At("ha", "users", "hal")]

\* The groups of the address of carol as strtok finds them: it is shortened.
Shortened == [[c \in Clients |-> Sites[c].net] EXCEPT ![carol] = "2001:db8:1:5"]

\* Typed are the nick of alice and a ban of her very address.
Typists == {alice, At(Star, "10.0", "0.1")}
=============================================================================
