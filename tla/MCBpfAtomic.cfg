SPECIFICATION Spec
CONSTANT Width = 3
PROPERTY FetchMaxStores
CHECK_DEADLOCK FALSE
