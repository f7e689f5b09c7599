CONSTANTS
    h1 = h1
    h2 = h2
    n1 = n1
    n2 = n2
    l1 = l1
    c1 = c1
    c2 = c2
    Items <- MCItems
    PriorityOf <- MCPriorityOf
    Capacity <- MCCapacity
    Consumers <- MCConsumers
SPECIFICATION Spec
CHECK_DEADLOCK FALSE
PROPERTY
    QueueRefinesStrict
