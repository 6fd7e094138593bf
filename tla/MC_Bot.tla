------------------------------- MODULE MC_Bot -------------------------------
(* Instances of Bot for TLC, and of the two calculations its login and its packets take. *)
EXTENDS Bot, LoginKey, Wire

SomeDefaults == [k \in Keys |-> IF k \in BoolKeys THEN True ELSE 2]

SomeSecrets == {0, 1, 5, 11, 12}
SomePrefixes == {<<0, 1, 2, 3>>, <<3, 3, 1, 0>>}
SomeCredentials == {[n \in 1..l |-> (3 * n + n \div 2) % 4] : l \in 2..9}

\* LOGIN_OK, MSG_PRIVATE, BUDDY_ADD and LOGIN_CHARLIST.
SomeSchemas ==
    [t \in {5, 30, 40, 7} |->
        CASE t = 5 -> <<>> [] t = 30 -> <<"I", "S", "S">>
          [] t = 40 -> <<"I", "S">> [] t = 7 -> <<"i", "s", "i", "i">>]
SomeSamples ==
    { <<5, <<>>>>, <<30, <<9, <<1, 2>>, <<0>>>>>>, <<30, <<9, <<1, 5>>, <<0>>>>>>,
      <<30, <<70, <<>>, <<7, 7>>>>>>, <<40, <<4095, <<1>>>>>>,
      <<7, <<<<1, 65>>, <<<<1, 2>>, <<>>>>, <<3, 4>>, <<0, 1>>>>>>,
      <<7, <<<<>>, <<>>, <<>>, <<>>>>>> }

\* A client that has answered the seed has sent a key from which the server
\* recovers its credentials.
LoginKeyAccepted == thread = "charlist" => ServerRecoversLogin

\* What the session reads once the loops run is what was sent, packet by packet.
SessionReadsPackets == thread = "running" => WholePacketsRead
=============================================================================
