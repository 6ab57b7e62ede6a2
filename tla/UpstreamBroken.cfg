\* A body that is not streamed breaks after its headers.
SPECIFICATION Spec
CONSTANT MaxEvents = 1
PROPERTY NetworkErrorsTransient
