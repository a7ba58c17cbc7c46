---------------------------- MODULE MCBundleUpdate ----------------------------
(* The update of an AppImage or a bundle, checked on a small instance.     *)
EXTENDS BundleUpdate
=============================================================================
