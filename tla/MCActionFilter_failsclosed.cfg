\* Spec 4.1 says an unset state or type fails closed; the code fails open.
CONSTANT Null = Null
SPECIFICATION Spec
INVARIANT FailsClosed
