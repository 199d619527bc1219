--------------------------- MODULE MCLoadBalancer ---------------------------
(* The two playbooks with the contents of this commit, and one broken edit. *)
EXTENDS LoadBalancer

CONSTANTS distro, api, merged, bad

MCContents == {distro, api, merged, bad}

MCValid == {distro, api, merged}
=============================================================================
