-------------------------------- MODULE MCUpdate --------------------------------
(* Two releases over a factory image: an application file, a kernel, a      *)
(* configuration template, a user's file, the identity, and an old file     *)
(* that release 1 and later delete.  Release 2 wants a new configuration.   *)
EXTENDS UpdateService, TLC

MCPaths == {"app", "kernel", "config", "disk", "old", Build, Tmp}

MCShipped ==
  0 :> ("app" :> "a0" @@ "kernel" :> "k0" @@ "config" :> "c0" @@ "disk" :> "d0"
        @@ "old" :> "o0" @@ Build :> "b0")
  @@ 1 :> ("app" :> "a1" @@ "kernel" :> "k1" @@ "config" :> "c1" @@ "disk" :> "d0"
        @@ Build :> "b1")
  @@ 2 :> ("app" :> "a1" @@ "kernel" :> "k2" @@ "config" :> "c1" @@ "disk" :> "d2"
        @@ Build :> "b2")

MCPass ==
  "app" :> 0 @@ "kernel" :> 1 @@ "config" :> 2 @@ "disk" :> 0 @@ "old" :> 0
  @@ Build :> 3 @@ Tmp :> 0

MCDeletions == 0 :> {} @@ 1 :> {"old"} @@ 2 :> {"old"}

MCAccepts == 0 :> {"c0", "user"} @@ 1 :> {"c0", "c1", "user", Missing} @@ 2 :> {"c1", Missing}
=============================================================================
