---------------------------- MODULE MCProxyDaemon ----------------------------
(* ProxyDaemon on small instances: the constants come from the cfg files. *)
EXTENDS ProxyDaemon, TLC

CONSTANT LocalProxy

\* One local proxy, as with Tor on its usual port, or none.
OneLocal == <<LocalProxy>>
NoLocal == <<>>

\* Connections are interchangeable.
ConnSymmetry == Permutations(Conn)

=============================================================================
