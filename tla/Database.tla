------------------------------ MODULE Database ------------------------------
(* What the services of the web server share: a collection of Mongo is a    *)
(* function from names to documents, and None stands for no document.       *)
CONSTANT None
=============================================================================
