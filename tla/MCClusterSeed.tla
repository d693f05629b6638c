---------------------------- MODULE MCClusterSeed ----------------------------
(* Two commits: the first forgets a rehearsal cut, the second adds a        *)
(* Namespace, with an Application in it and the source of a copy that sorts *)
(* before it.  A rehearsal of the first cannot make that copy.  A third     *)
(* Secret a rehearsal leaves out.                                           *)
EXTENDS ClusterSeed, TLC

CONSTANTS copy, source, url, password, token, receivers, omit,
          argocdDir, gatewayDir, extraDir, core, extra, r1, r2, link, host1, host2,
          lb, lb2, old, live1, item, hand, g1, g2, g3

MCSecrets == {copy, source, omit}
MCRank    == copy :> 1 @@ source :> 2 @@ omit :> 3
MCKeys    == {url, password, token, receivers}
MCIn      == url :> copy @@ password :> source @@ token :> source @@ receivers :> omit
MCKind    == url :> "copy" @@ password :> "generated" @@ token :> "issued" @@ receivers :> "issued"
MCFrom    == url :> password
MCApps    == {argocdDir, gatewayDir, extraDir}
MCElements == r1 :> {argocdDir, gatewayDir} @@ r2 :> MCApps
MCNamespacesOf == r1 :> {core} @@ r2 :> {core, extra}
MCHome    == argocdDir :> core @@ gatewayDir :> core @@ extraDir :> extra
             @@ copy :> core @@ source :> extra @@ omit :> core
MCCutIn   == link :> gatewayDir
MCLeaks   == r1 :> {link} @@ r2 :> {}
=============================================================================
